---------------------------- MODULE Spec2Model ----------------------------
(***************************************************************************)
(* A model of the asklurk /stream aggregator (src/app.py): the token       *)
(* ledger `tokens_used`, the per-provider generators of `generate`, the    *)
(* polling multiplexer `stream.event_stream`, and the /asklurk and         *)
(* /reset-tokens handlers, run as the threads of app.run(threaded=True).   *)
(*                                                                         *)
(* Granularity.  Every action holds at most one access to the shared       *)
(* global `tokens_used` (a load or a store) or one blocking read of the    *)
(* network; the thread-local work around it is folded into the action.     *)
(* `tokens_used += x` is a load, an add and a store (LOAD_GLOBAL ...       *)
(* STORE_GLOBAL), so it is two actions with the loaded value in `tmp`.     *)
(*                                                                         *)
(* Abstractions.  Text is a sequence of symbols and the tokenizer          *)
(* `len(enc.encode(s))` counts one token per symbol.  A backend chunk is   *)
(* chosen when it is read; `net` only records whether one has arrived.     *)
(***************************************************************************)
EXTENDS Integers, Sequences, FiniteSets, TLC

(* ---------------------------- program constants ------------------------ *)

TOKEN_LIMIT == 300000

\* The keys of MODELS, in the dictionary's (insertion) order.
ModelKeys == <<"logic", "creative", "technical", "concise", "friendly", "expert">>

(* -------------------------------- bounds -------------------------------- *)

\* Concurrent /stream requests.
NumReqs == 2
\* How many of the six providers of MODELS a modelled deployment configures
\* when its requests are served one at a time.
NumBots == 2
\* The same, when requests are served concurrently.
NumConcBots == 1
\* Tokens of a synthesized best answer.
MaxBestTokens == 1
\* Content chunks a backend sends on one stream.
MaxChunks == 1
\* Symbols of one delta.
MaxDeltaLen == 1
\* Symbols of a submitted prompt.
MaxPromptLen == 1
\* Calls of /reset-tokens.
MaxResets == 1
\* How many of the models of AVAILABLE_MODELS a modelled session offers.
NumLurkModels == 2
\* Questions of one session.
MaxTurns == 2

Reqs == 1..NumReqs

\* MODELS.keys() of a deployment that configures the first n providers.
MODELS(n) == SubSeq(ModelKeys, 1, n)

Range(s) == {s[i] : i \in 1..Len(s)}

Bots == Range(ModelKeys)

\* SYSTEM_PROMPTS[key]: one instruction text per provider.
SYSTEM_PROMPTS == [b \in Bots |-> <<"You are", b>>]

(* ------------------------------ text helpers ---------------------------- *)

RECURSIVE SeqsUpTo(_, _)
SeqsUpTo(S, n) ==
    IF n = 0 THEN {<<>>}
    ELSE LET shorter == SeqsUpTo(S, n - 1)
         IN  shorter \cup {Append(s, x) : s \in shorter, x \in S}

IsSpace(c) == c = " "

RECURSIVE LStrip(_)
LStrip(s) == IF s # <<>> /\ IsSpace(Head(s)) THEN LStrip(Tail(s)) ELSE s

RECURSIVE RStrip(_)
RStrip(s) ==
    IF s # <<>> /\ IsSpace(s[Len(s)]) THEN RStrip(SubSeq(s, 1, Len(s) - 1)) ELSE s

\* str.strip(): leading and trailing whitespace removed.
Strip(s) == RStrip(LStrip(s))

\* ", ".join(xs)
RECURSIVE Join(_)
Join(xs) ==
    IF xs = <<>> THEN <<>>
    ELSE IF Len(xs) = 1 THEN <<Head(xs)>>
    ELSE <<Head(xs), ", ">> \o Join(Tail(xs))

\* len(enc.encode(s)): one token per symbol.
Tokens(s) == Len(s)

\* What a client may submit.
Prompts == SeqsUpTo({" ", "q"}, MaxPromptLen)
FileLists == {<<>>, <<"/static/uploads/u">>}
DeltaTexts == SeqsUpTo({"4"}, MaxDeltaLen) \ {<<>>}

\* The ledger value earlier traffic left behind.  Every natural number is
\* reachable (one /asklurk charge adds any number of tokens), so the model
\* starts from a fresh process, from a ledger one token short of the limit
\* and from one exactly at it.
PriorUsage == {0, TOKEN_LIMIT - 1, TOKEN_LIMIT}

(* -------------------------------- events -------------------------------- *)

\* The JSON objects of the event stream.
Delta(b, text) == [bot |-> b, kind |-> "text", text |-> text, tokens |-> 0]
Done(b, used) == [bot |-> b, kind |-> "done", text |-> <<>>, tokens |-> used]
Error(b) == [bot |-> b, kind |-> "error", text |-> <<>>, tokens |-> 0]
AllDoneEvent(used) == [bot |-> "", kind |-> "all_done", text |-> <<>>, tokens |-> used]

IsTerminal(e) == e.kind \in {"done", "error"}

RECURSIVE SelectEvents(_, _)
SelectEvents(s, b) ==
    IF s = <<>> THEN <<>>
    ELSE IF Head(s).bot = b THEN <<Head(s)>> \o SelectEvents(Tail(s), b)
    ELSE SelectEvents(Tail(s), b)

RECURSIVE Remove(_, _)
Remove(s, b) ==
    IF s = <<>> THEN <<>>
    ELSE IF Head(s) = b THEN Tail(s)
    ELSE <<Head(s)>> \o Remove(Tail(s), b)

RECURSIVE SumSeq(_)
SumSeq(s) == IF s = <<>> THEN 0 ELSE Head(s) + SumSeq(Tail(s))

(* --------------------------------- state -------------------------------- *)

VARIABLES
    tokens_used,    \* the global ledger
    pc,             \* pc[r]: where the thread serving /stream request r stands
    status,         \* status[r]: HTTP status of the response (0: none yet)
    input,          \* input[r]: the request body as submitted
    seen,           \* seen[r]: the ledger value the admission check read
    full_prompt,    \* full_prompt[r]
    active,         \* active[r]: active_generators, as the keys in order
    snap,           \* snap[r]: the copy active_generators[:] the for loop walks
    idx,            \* idx[r]: position of the for loop in snap[r]
    gen,            \* gen[r][b]: the generator generate(b, ...) of request r
    net,            \* net[r][b]: "off", "pending" (awaited) or "ready" (arrived)
    tmp,            \* tmp[r]: the value `tokens_used +=` loaded, until it stores
    out,            \* out[r]: the events event_stream has yielded
    prod,           \* prod[r][b]: the events generate(b, ...) has yielded
    called,         \* called[r]: the providers whose backend was contacted
    stores,         \* stores[r]: the ledger stores request r has made
    acked,          \* charges begun and returned since the last reset, summed
    overlap,        \* charges that began before the last reset and returned after
    stale,          \* stale[r]: a reset ran since request r loaded `tmp`
    resets,         \* calls of /reset-tokens so far
    ask,            \* the thread serving the /asklurk request
    KEY,            \* whether OPENROUTER_API_KEY is set in the environment
    proc,           \* the process: "starting", "running" or "exited"
    tok,            \* the thread serving the GET /tokens request
    rst,            \* the thread serving POST /reset-tokens
    lurk            \* the Streamlit session of src/lurkbe.py

vars == <<tokens_used, pc, status, input, seen, full_prompt, active, snap, idx,
          gen, net, tmp, out, prod, called, stores, acked, overlap, stale,
          resets, ask, KEY, proc, tok, rst, lurk>>

\* What the module's top-level code decides, once, when the process starts.
startVars == <<KEY, proc>>

\* The threads of the two ledger endpoints, and the other program.
sideVars == <<tok, rst, lurk>>

\* The variables of the /stream threads that are private to them.
streamVars == <<pc, status, input, seen, full_prompt, active, snap, idx, gen,
                net, tmp, out, prod, called, stores, stale>>

\* The state of src/app.py.
appVars == <<tokens_used, streamVars, acked, overlap, resets, ask, startVars,
             tok, rst>>

NewGen == [st |-> "new", bot_tokens |-> 0, fin |-> FALSE, n |-> 0]

NoInput == [prompt |-> <<>>, files |-> <<>>]

NoAsk == [pc |-> "idle", answers |-> <<>>, models |-> <<>>, calls |-> 0,
          failed |-> FALSE, best |-> <<>>, error |-> <<>>, cost |-> 0,
          tmp |-> 0, stale |-> FALSE, stores |-> 0, before |-> 0, after |-> 0,
          status |-> 0, source |-> "", tokens_used |-> 0]

NoTok == [pc |-> "idle", status |-> 0, tokens_used |-> 0, token_limit |-> 0,
          remaining_tokens |-> 0, usage_of |-> 0]

NoRst == [pc |-> "idle", returned |-> 0]

(* ----------------------------- src/lurkbe.py ---------------------------- *)

\* Python's None and the empty string; every text is a sequence of pieces.
None == <<"None">>
Empty == <<"">>

\* The keys of AVAILABLE_MODELS, in the dictionary's order.
AvailableNames ==
    <<"GPT-5", "Grok 4", "Gemini 2.5 Pro", "Mistral Large 2", "Qwen3 235B A22B",
      "DeepSeek-R1", "Llama 4 Maverick", "GPT-4.1", "Gemini 1.5 Pro",
      "Claude 3.5 Sonnet">>

\* AVAILABLE_MODELS[name]["provider"]
ProviderOf(name) ==
    CASE name \in {"GPT-5", "GPT-4.1"} -> "openai"
      [] name = "Grok 4" -> "groq"
      [] name \in {"Gemini 2.5 Pro", "Gemini 1.5 Pro"} -> "gemini"
      [] name = "Mistral Large 2" -> "mistral"
      [] name \in {"Qwen3 235B A22B", "Llama 4 Maverick"} -> "aiml"
      [] name = "DeepSeek-R1" -> "deepseek"
      [] name = "Claude 3.5 Sonnet" -> "anthropic"

\* The providers whose client object is None when their key is not set.
ClientKinds == {"groq", "openai", "deepseek", "mistral", "aiml", "anthropic"}

\* The options of the multiselect of a modelled session.
LurkNames == Range(SubSeq(AvailableNames, 1, NumLurkModels))

\* The sequences over S without repetition: what st.multiselect returns.
RECURSIVE Selections(_)
Selections(S) ==
    {<<>>} \cup UNION {{<<x>> \o rest : rest \in Selections(S \ {x})} : x \in S}

\* What a contacted backend does: it replies with a text, or the call raises.
Behaviours ==
    [kind : {"reply"}, text : {<<"4">>, Empty}] \cup
    [kind : {"raise"}, text : {<<"timeout">>}]

\* The provider's call and what generate_response returns of it: the reply,
\* or, from `except Exception`, the error text.
Backend(beh) ==
    IF beh.kind = "reply"
    THEN [reply |-> beh.text, error |-> None, called |-> TRUE]
    ELSE [reply |-> None, error |-> <<"Error: ">> \o beh.text, called |-> TRUE]

\* Variant: a failed call is returned as a reply of no text and no error.
GenerateResponseSilent(name, kind, clients, beh) ==
    IF beh.kind = "raise" \/ (kind \in ClientKinds /\ kind \notin clients)
    THEN [reply |-> None, error |-> None, called |-> beh.kind = "raise"]
    ELSE Backend(beh)

\* generate_response(model_name, config, prompt), with `clients` the providers
\* whose client object exists.  `genai` is the imported module whether or
\* not GOOGLE_API_KEY is set, so `if not genai` does not hold.
GenerateResponse(name, kind, clients, beh) ==
    IF kind = "gemini" THEN Backend(beh)
    ELSE IF kind \in ClientKinds
    THEN IF kind \notin clients
         THEN [reply |-> None, error |-> <<kind, " API key missing">>,
               called |-> FALSE]
         ELSE Backend(beh)
    ELSE [reply |-> None, error |-> <<"Not supported: ", name>>, called |-> FALSE]

\* d[k] = v of a dict kept as the sequence of its items.
DictPut(d, k, v) ==
    IF \E i \in 1..Len(d) : d[i].key = k
    THEN [i \in 1..Len(d) |-> IF d[i].key = k THEN [key |-> k, val |-> v] ELSE d[i]]
    ELSE Append(d, [key |-> k, val |-> v])

\* `{loop.run_until_complete(generate_response(name, ...)): name
\*   for name in selected_names}`: a dict keyed by the (reply, error) tuples.
RECURSIVE FutureToModel(_, _)
FutureToModel(names, outcome) ==
    IF names = <<>> THEN <<>>
    ELSE LET n == names[Len(names)]
             o == outcome[n]
         IN  DictPut(FutureToModel(SubSeq(names, 1, Len(names) - 1), outcome),
                     <<o.reply, o.error>>, n)

\* The submit path: `responses[model_name] = reply` for every item.
SubmitResponses(items) ==
    [n \in {items[i].val : i \in 1..Len(items)} |->
        LET i == CHOOSE j \in 1..Len(items) : items[j].val = n
        IN  items[i].key[1]]

\* Python truth of a reply or an error.
Truthy(x) == x # None /\ x # Empty

\* The regeneration path: the reply `if reply`, "[Error] ..." `elif error`,
\* and no entry otherwise.
RegenResponses(items) ==
    [n \in {items[i].val : i \in {j \in 1..Len(items) :
                                     Truthy(items[j].key[1]) \/ Truthy(items[j].key[2])}} |->
        LET i == CHOOSE j \in 1..Len(items) : items[j].val = n
        IN  IF Truthy(items[i].key[1]) THEN items[i].key[1]
            ELSE <<"[Error] ">> \o items[i].key[2]]

\* The session state of a session that has not run the script yet, with a
\* client for every provider.
NoLurk ==
    [clients |-> ClientKinds, selected |-> <<>>, previous |-> <<>>,
     history |-> <<>>, last |-> "idle", notice |-> "", calls |-> 0, before |-> 0]


\* The request-serving state of a process that has not served anything yet.
Serving ==
    /\ tokens_used \in PriorUsage
    /\ pc = [r \in Reqs |-> "idle"]
    /\ status = [r \in Reqs |-> 0]
    /\ input = [r \in Reqs |-> NoInput]
    /\ seen = [r \in Reqs |-> 0]
    /\ full_prompt = [r \in Reqs |-> <<>>]
    /\ active = [r \in Reqs |-> <<>>]
    /\ snap = [r \in Reqs |-> <<>>]
    /\ idx = [r \in Reqs |-> 1]
    /\ gen = [r \in Reqs |-> [b \in Bots |-> NewGen]]
    /\ net = [r \in Reqs |-> [b \in Bots |-> "off"]]
    /\ tmp = [r \in Reqs |-> 0]
    /\ out = [r \in Reqs |-> <<>>]
    /\ prod = [r \in Reqs |-> [b \in Bots |-> <<>>]]
    /\ called = [r \in Reqs |-> {}]
    /\ stores = [r \in Reqs |-> 0]
    /\ acked = tokens_used
    /\ overlap = <<>>
    /\ stale = [r \in Reqs |-> FALSE]
    /\ resets = 0
    /\ ask = NoAsk
    /\ tok = NoTok
    /\ rst = NoRst

\* A process started with its credential set, up and accepting requests.
Init ==
    /\ Serving
    /\ lurk = NoLurk
    /\ KEY = TRUE
    /\ proc = "running"

(* ------------------------------- startup -------------------------------- *)

\* The module's top-level code: `if not KEY` logs an error and calls
\* sys.exit(1); otherwise the module is loaded and app.run() serves requests.
Startup ==
    /\ proc = "starting"
    /\ proc' = IF KEY THEN "running" ELSE "exited"
    /\ UNCHANGED <<tokens_used, streamVars, acked, overlap, resets, ask, KEY>>
    /\ UNCHANGED sideVars

(* ------------------------------- /stream -------------------------------- *)

\* Variant: the prompt is tested as submitted, not stripped.
EmptyRequestUnstripped(prompt, files) == prompt = <<>> /\ files = <<>>

\* `if not prompt and not fileUrls`, prompt already stripped.
EmptyRequest(prompt, files) == Strip(prompt) = <<>> /\ files = <<>>

\* Variant: `>` for `>=`.
LimitReachedStrict(used) == used > TOKEN_LIMIT

\* Variant: the limit taken one token early.
LimitReachedEarly(used) == used + 1 >= TOKEN_LIMIT

\* `if tokens_used >= TOKEN_LIMIT`
LimitReached(used) == used >= TOKEN_LIMIT

\* full_prompt: the stripped prompt, plus the note naming the uploaded files.
FullPrompt(prompt, files) ==
    IF files # <<>>
    THEN Strip(prompt) \o <<"\n\n[User uploaded files: ">> \o Join(files) \o <<"]">>
    ELSE Strip(prompt)

\* The handler up to `return Response(event_stream(), ...)`: nothing of
\* event_stream has run yet, the generators are created and not started.
StreamRequest(r, prompt, files, models) ==
    /\ proc = "running"
    /\ pc[r] = "idle"
    /\ input' = [input EXCEPT ![r] = [prompt |-> prompt, files |-> files]]
    /\ seen' = [seen EXCEPT ![r] = tokens_used]
    /\ IF EmptyRequest(prompt, files)
       THEN /\ status' = [status EXCEPT ![r] = 400]
            /\ pc' = [pc EXCEPT ![r] = "closed"]
            /\ UNCHANGED <<full_prompt, active, snap, idx>>
       ELSE IF LimitReached(tokens_used)
       THEN /\ status' = [status EXCEPT ![r] = 429]
            /\ pc' = [pc EXCEPT ![r] = "closed"]
            /\ UNCHANGED <<full_prompt, active, snap, idx>>
       ELSE /\ status' = [status EXCEPT ![r] = 200]
            /\ pc' = [pc EXCEPT ![r] = "poll"]
            /\ full_prompt' = [full_prompt EXCEPT ![r] = FullPrompt(prompt, files)]
            /\ active' = [active EXCEPT ![r] = models]
            /\ snap' = [snap EXCEPT ![r] = models]
            /\ idx' = [idx EXCEPT ![r] = 1]
    /\ UNCHANGED <<tokens_used, gen, net, tmp, out, prod, called, stores,
                   acked, overlap, stale, resets, ask>>
    /\ UNCHANGED startVars
    /\ UNCHANGED sideVars

\* The provider the for loop of event_stream is at.
Cur(r) == snap[r][idx[r]]

\* Variant: the loop stays with a provider until it is removed, and only
\* then moves on.
AdvanceDrain(r, nowActive) ==
    IF \E i \in 1..Len(nowActive) : nowActive[i] = snap[r][idx[r]]
    THEN /\ pc' = [pc EXCEPT ![r] = "poll"]
         /\ UNCHANGED <<idx, snap>>
    ELSE IF idx[r] < Len(snap[r])
    THEN /\ idx' = [idx EXCEPT ![r] = idx[r] + 1]
         /\ pc' = [pc EXCEPT ![r] = "poll"]
         /\ snap' = snap
    ELSE IF nowActive = <<>>
    THEN /\ pc' = [pc EXCEPT ![r] = "final"]
         /\ UNCHANGED <<idx, snap>>
    ELSE /\ snap' = [snap EXCEPT ![r] = nowActive]
         /\ idx' = [idx EXCEPT ![r] = 1]
         /\ pc' = [pc EXCEPT ![r] = "poll"]

\* Variant: the while loop is left after a round although generators are
\* still active.
AdvanceOneRound(r, nowActive) ==
    IF idx[r] < Len(snap[r])
    THEN /\ idx' = [idx EXCEPT ![r] = idx[r] + 1]
         /\ pc' = [pc EXCEPT ![r] = "poll"]
         /\ snap' = snap
    ELSE /\ pc' = [pc EXCEPT ![r] = "final"]
         /\ UNCHANGED <<idx, snap>>

\* The for loop moves on; at the end of a round `while active_generators`
\* either copies the list again or leaves the loop.
Advance(r, nowActive) ==
    IF idx[r] < Len(snap[r])
    THEN /\ idx' = [idx EXCEPT ![r] = idx[r] + 1]
         /\ pc' = [pc EXCEPT ![r] = "poll"]
         /\ snap' = snap
    ELSE IF nowActive = <<>>
    THEN /\ pc' = [pc EXCEPT ![r] = "final"]
         /\ UNCHANGED <<idx, snap>>
    ELSE /\ snap' = [snap EXCEPT ![r] = nowActive]
         /\ idx' = [idx EXCEPT ![r] = 1]
         /\ pc' = [pc EXCEPT ![r] = "poll"]

\* Variant: an error event is logged and not forwarded.
MuxYieldDropsError(o, chunk) == IF chunk.kind = "error" THEN o ELSE Append(o, chunk)

\* `yield chunk` of event_stream.
MuxYield(o, chunk) == Append(o, chunk)

\* A `yield` of generate, handed by next() to event_stream, which yields it.
Emit(r, b, e) ==
    /\ prod' = [prod EXCEPT ![r][b] = Append(@, e)]
    /\ out' = [out EXCEPT ![r] = MuxYield(@, e)]

\* A charge of c tokens returns: the ledger bookkeeping of an atomic counter.
Returned(c, wasStale) ==
    IF wasStale
    THEN /\ overlap' = Append(overlap, c)
         /\ acked' = acked
    ELSE /\ acked' = acked + c
         /\ overlap' = overlap

\* `tokens_used += x`, the load.
LoadLedger(r) ==
    /\ tmp' = [tmp EXCEPT ![r] = tokens_used]
    /\ stale' = [stale EXCEPT ![r] = FALSE]

\* `tokens_used += x`, the add and the store.
StoreLedger(r, x) ==
    /\ tokens_used' = tmp[r] + x
    /\ stores' = [stores EXCEPT ![r] = @ + 1]
    /\ Returned(x, stale[r])
    /\ stale' = [stale EXCEPT ![r] = FALSE]

\* First next() of a generator: generate runs from its top to the load of
\* `tokens_used += system_tokens + user_tokens`.
GenStart(r) ==
    /\ pc[r] = "poll"
    /\ gen[r][Cur(r)].st = "new"
    /\ LoadLedger(r)
    /\ pc' = [pc EXCEPT ![r] = "st_req"]
    /\ UNCHANGED <<tokens_used, status, input, seen, full_prompt, active, snap,
                   idx, gen, net, out, prod, called, stores, acked, overlap, resets, ask>>
    /\ UNCHANGED startVars
    /\ UNCHANGED sideVars

\* The store of the request charge, then client.chat.completions.create():
\* the backend is contacted and the generator waits for its first chunk.
GenCharge(r) ==
    /\ pc[r] = "st_req"
    /\ LET b == Cur(r)
       IN  /\ StoreLedger(r, Tokens(SYSTEM_PROMPTS[b]) + Tokens(full_prompt[r]))
           /\ called' = [called EXCEPT ![r] = @ \cup {b}]
           /\ net' = [net EXCEPT ![r][b] = "pending"]
           /\ gen' = [gen EXCEPT ![r][b].st = "open"]
    /\ pc' = [pc EXCEPT ![r] = "poll"]
    /\ UNCHANGED <<status, input, seen, full_prompt, active, snap, idx, tmp,
                   out, prod, resets, ask>>
    /\ UNCHANGED startVars
    /\ UNCHANGED sideVars

\* The backend's next chunk (or its failure) reaches the client.
BackendDeliver(r, b) ==
    /\ net[r][b] = "pending"
    /\ net' = [net EXCEPT ![r][b] = "ready"]
    /\ UNCHANGED <<tokens_used, pc, status, input, seen, full_prompt, active,
                   snap, idx, gen, tmp, out, prod, called, stores, acked,
                   overlap, stale, resets, ask>>
    /\ UNCHANGED startVars
    /\ UNCHANGED sideVars

\* The generator is inside `for chunk in stream`, blocked until a chunk is there.
Reading(r) ==
    /\ pc[r] = "poll"
    /\ gen[r][Cur(r)].st = "open"
    /\ ~gen[r][Cur(r)].fin
    /\ net[r][Cur(r)] = "ready"

\* A chunk with content (and, with fin, a finish_reason too): the delta is
\* counted and yielded; the generator is suspended at the yield.
GenDelta(r, text, fin) ==
    /\ Reading(r)
    /\ gen[r][Cur(r)].n < MaxChunks
    /\ LET b == Cur(r)
       IN  /\ gen' = [gen EXCEPT ![r][b] =
                        [@ EXCEPT !.bot_tokens = @ + Tokens(text),
                                  !.fin = fin,
                                  !.n = @ + 1]]
           /\ net' = [net EXCEPT ![r][b] = IF fin THEN "off" ELSE "pending"]
           /\ Emit(r, b, Delta(b, text))
    /\ Advance(r, active[r])
    /\ UNCHANGED <<tokens_used, status, input, seen, full_prompt, active, tmp,
                   called, stores, acked, overlap, stale, resets, ask>>
    /\ UNCHANGED startVars
    /\ UNCHANGED sideVars

\* A chunk with neither content nor finish_reason: the loop reads on.
GenSkip(r) ==
    /\ Reading(r)
    /\ net' = [net EXCEPT ![r][Cur(r)] = "pending"]
    /\ UNCHANGED <<tokens_used, pc, status, input, seen, full_prompt, active,
                   snap, idx, gen, tmp, out, prod, called, stores, acked,
                   overlap, stale, resets, ask>>
    /\ UNCHANGED startVars
    /\ UNCHANGED sideVars

\* A chunk with a finish_reason and no content, or the end of the stream:
\* the loop is left and `tokens_used += bot_tokens` loads.
GenBreak(r) ==
    /\ Reading(r)
    /\ net' = [net EXCEPT ![r][Cur(r)] = "off"]
    /\ LoadLedger(r)
    /\ pc' = [pc EXCEPT ![r] = "st_bot"]
    /\ UNCHANGED <<tokens_used, status, input, seen, full_prompt, active, snap,
                   idx, gen, out, prod, called, stores, acked, overlap, resets, ask>>
    /\ UNCHANGED startVars
    /\ UNCHANGED sideVars

\* next() resumes a generator suspended at a delta whose chunk carried a
\* finish_reason: `break`, then the load of `tokens_used += bot_tokens`.
GenResumeFinished(r) ==
    /\ pc[r] = "poll"
    /\ gen[r][Cur(r)].st = "open"
    /\ gen[r][Cur(r)].fin
    /\ LoadLedger(r)
    /\ pc' = [pc EXCEPT ![r] = "st_bot"]
    /\ UNCHANGED <<tokens_used, status, input, seen, full_prompt, active, snap,
                   idx, gen, net, out, prod, called, stores, acked, overlap, resets, ask>>
    /\ UNCHANGED startVars
    /\ UNCHANGED sideVars

\* The store of `tokens_used += bot_tokens`.
GenChargeBot(r) ==
    /\ pc[r] = "st_bot"
    /\ StoreLedger(r, gen[r][Cur(r)].bot_tokens)
    /\ pc' = [pc EXCEPT ![r] = "yield_done"]
    /\ UNCHANGED <<status, input, seen, full_prompt, active, snap, idx, gen,
                   net, tmp, out, prod, called, resets, ask>>
    /\ UNCHANGED startVars
    /\ UNCHANGED sideVars

\* The done event, which reads the ledger again.
GenDone(r) ==
    /\ pc[r] = "yield_done"
    /\ LET b == Cur(r)
       IN  /\ gen' = [gen EXCEPT ![r][b].st = "fin"]
           /\ Emit(r, b, Done(b, tokens_used))
    /\ Advance(r, active[r])
    /\ UNCHANGED <<tokens_used, status, input, seen, full_prompt, active, net,
                   tmp, called, stores, acked, overlap, stale, resets, ask>>
    /\ UNCHANGED startVars
    /\ UNCHANGED sideVars

\* create() or the read of a chunk raises: `except Exception` yields the error
\* event; bot_tokens is dropped.
GenFault(r) ==
    /\ Reading(r)
    /\ LET b == Cur(r)
       IN  /\ gen' = [gen EXCEPT ![r][b].st = "fin"]
           /\ net' = [net EXCEPT ![r][b] = "off"]
           /\ Emit(r, b, Error(b))
    /\ Advance(r, active[r])
    /\ UNCHANGED <<tokens_used, status, input, seen, full_prompt, active, tmp,
                   called, stores, acked, overlap, stale, resets, ask>>
    /\ UNCHANGED startVars
    /\ UNCHANGED sideVars

\* Variant: StopIteration falls into `except Exception`, which yields an error
\* event of its own.
GenStopAsError(r) ==
    /\ pc[r] = "poll"
    /\ gen[r][Cur(r)].st = "fin"
    /\ LET b == Cur(r)
           left == Remove(active[r], b)
       IN  /\ gen' = [gen EXCEPT ![r][b].st = "end"]
           /\ active' = [active EXCEPT ![r] = left]
           /\ out' = [out EXCEPT ![r] = Append(@, Error(b))]
           /\ Advance(r, left)
    /\ UNCHANGED <<tokens_used, status, input, seen, full_prompt, net, tmp,
                   prod, called, stores, acked, overlap, stale, resets, ask>>
    /\ UNCHANGED startVars
    /\ UNCHANGED sideVars

\* next() on a generator that yielded its done or error event: it returns,
\* StopIteration removes it from active_generators.
GenStop(r) ==
    /\ pc[r] = "poll"
    /\ gen[r][Cur(r)].st = "fin"
    /\ LET b == Cur(r)
           left == Remove(active[r], b)
       IN  /\ gen' = [gen EXCEPT ![r][b].st = "end"]
           /\ active' = [active EXCEPT ![r] = left]
           /\ Advance(r, left)
    /\ UNCHANGED <<tokens_used, status, input, seen, full_prompt, net, tmp, out,
                   prod, called, stores, acked, overlap, stale, resets, ask>>
    /\ UNCHANGED startVars
    /\ UNCHANGED sideVars

\* A completion message that carries what remains of the budget.
AllDoneRemaining(r) ==
    /\ pc[r] = "final"
    /\ out' = [out EXCEPT ![r] = MuxYield(@, AllDoneEvent(TOKEN_LIMIT - tokens_used))]
    /\ pc' = [pc EXCEPT ![r] = "closed"]
    /\ UNCHANGED <<tokens_used, status, input, seen, full_prompt, active, snap,
                   idx, gen, net, tmp, prod, called, stores, acked, overlap,
                   stale, resets, ask>>
    /\ UNCHANGED startVars
    /\ UNCHANGED sideVars

\* The final completion message, carrying `tokens_used`.
AllDone(r) ==
    /\ pc[r] = "final"
    /\ out' = [out EXCEPT ![r] = MuxYield(@, AllDoneEvent(tokens_used))]
    /\ pc' = [pc EXCEPT ![r] = "closed"]
    /\ UNCHANGED <<tokens_used, status, input, seen, full_prompt, active, snap,
                   idx, gen, net, tmp, prod, called, stores, acked, overlap,
                   stale, resets, ask>>
    /\ UNCHANGED startVars
    /\ UNCHANGED sideVars

(* ------------------------------- /asklurk ------------------------------- *)

\* MODELS[key]['name']
ModelNames ==
    [b \in Bots |->
        CASE b = "logic" -> "LogicBot"
          [] b = "creative" -> "CreativeBot"
          [] b = "technical" -> "TechBot"
          [] b = "concise" -> "BriefBot"
          [] b = "friendly" -> "FriendBot"
          [] b = "expert" -> "ExpertBot"]

\* Keys a client may send that are no key of MODELS.
ExtraKeys == {"other"}

\* n times the symbol c.
Rep(c, n) == [i \in 1..n |-> c]

\* `response_text[:200]` keeps this many characters.
ExcerptLen == 200

\* Answer texts a client may send: a short one, one of exactly 200
\* characters, and one whose 201st character is the only "z".
AnswerTexts ==
    {<<"f", "o", "o">>, Rep("a", ExcerptLen), Rep("a", ExcerptLen) \o <<"z">>}

\* The `answers` objects over the given keys and texts: a JSON object keeps
\* the order of its members and has each key once.
RECURSIVE AnswerMaps(_, _)
AnswerMaps(keys, texts) ==
    {<<>>} \cup
    UNION {{<<[key |-> k, text |-> t]>> \o rest :
               t \in texts, rest \in AnswerMaps(keys \ {k}, texts)} : k \in keys}

\* The keys of an `answers` object.
Keys(answers) == {answers[i].key : i \in 1..Len(answers)}

\* The best answers the synthesis backend may return.
BestTexts == SeqsUpTo({"s"}, MaxBestTokens)

\* Variant: only the first missing provider is reported.
MissingModelsFirst(models, answers) ==
    LET all == SelectSeq(models, LAMBDA k : k \notin answers)
    IN  IF all = <<>> THEN <<>> ELSE <<Head(all)>>

\* `[key for key in MODELS.keys() if key not in answers]`
MissingModels(models, answers) == SelectSeq(models, LAMBDA k : k \notin answers)

\* f"Missing responses from: {', '.join(missing_models)}"
MissingMessage(missing) == <<"Missing responses from: ">> \o Join(missing)

\* Variant: the whole answer is quoted.
ExcerptWhole(text) == text

\* `response_text[:200]`
Excerpt(text) ==
    SubSeq(text, 1, IF Len(text) < ExcerptLen THEN Len(text) ELSE ExcerptLen)

\* The combined view of the fallback: a heading, then for every member of
\* `answers` the display name and the excerpt of the answer.
RECURSIVE CombinedEntries(_)
CombinedEntries(answers) ==
    IF answers = <<>> THEN <<>>
    ELSE <<"**", ModelNames[Head(answers).key], "**: ">>
         \o Excerpt(Head(answers).text) \o <<"...\n\n">>
         \o CombinedEntries(Tail(answers))

CombinedResponse(answers) ==
    <<"## AskLurk Synthesis\n\nBased on analysis of 6 AI models:\n\n">>
    \o CombinedEntries(answers)

\* The handler up to the synthesis call: an incomplete answer set is refused,
\* a complete one is sent to the synthesis backend and the thread waits.
AskLurk(answers, models) ==
    /\ proc = "running"
    /\ ask.pc = "idle"
    /\ LET missing == MissingModels(models, Keys(answers))
       IN  IF missing # <<>>
           THEN ask' = [ask EXCEPT !.pc = "closed", !.answers = answers,
                                   !.models = models, !.status = 400,
                                   !.error = MissingMessage(missing)]
           ELSE ask' = [ask EXCEPT !.pc = "call", !.answers = answers,
                                   !.models = models, !.calls = @ + 1]
    /\ UNCHANGED <<tokens_used, streamVars, acked, overlap, resets>>
    /\ UNCHANGED startVars
    /\ UNCHANGED sideVars

\* The synthesis backend answers with a best answer; asklurk_tokens is
\* counted and `tokens_used += asklurk_tokens` loads.
AskSynthesized(text) ==
    /\ ask.pc = "call"
    /\ ask' = [ask EXCEPT !.pc = "st", !.best = text, !.cost = Tokens(text),
                           !.tmp = tokens_used, !.stale = FALSE]
    /\ UNCHANGED <<tokens_used, streamVars, acked, overlap, resets>>
    /\ UNCHANGED startVars
    /\ UNCHANGED sideVars

\* The store of `tokens_used += asklurk_tokens`.
AskCharge ==
    /\ ask.pc = "st"
    /\ tokens_used' = ask.tmp + ask.cost
    /\ Returned(ask.cost, ask.stale)
    /\ ask' = [ask EXCEPT !.pc = "ret", !.stale = FALSE, !.stores = @ + 1,
                           !.before = tokens_used,
                           !.after = ask.tmp + ask.cost]
    /\ UNCHANGED <<streamVars, resets>>
    /\ UNCHANGED startVars
    /\ UNCHANGED sideVars

\* `return jsonify(best=best_answer, tokens_used=tokens_used)`
AskReturn ==
    /\ ask.pc = "ret"
    /\ ask' = [ask EXCEPT !.pc = "closed", !.status = 200,
                           !.source = "synthesized",
                           !.tokens_used = tokens_used]
    /\ UNCHANGED <<tokens_used, streamVars, acked, overlap, resets>>
    /\ UNCHANGED startVars
    /\ UNCHANGED sideVars

\* Variant: the combined view is charged to the ledger by its entries.
AskFallbackCharged ==
    /\ ask.pc = "call"
    /\ IF Keys(ask.answers) \subseteq Range(ask.models)
       THEN ask' = [ask EXCEPT !.pc = "closed", !.failed = TRUE, !.status = 200,
                               !.source = "fallback-combined",
                               !.best = CombinedResponse(ask.answers),
                               !.error = <<"AI synthesis failed, using combined view">>]
       ELSE ask' = [ask EXCEPT !.pc = "closed", !.failed = TRUE, !.status = 500]
    /\ tokens_used' = tokens_used + Len(ask.answers)
    /\ UNCHANGED <<streamVars, acked, overlap, resets>>
    /\ UNCHANGED startVars
    /\ UNCHANGED sideVars

\* The synthesis call raises: `except Exception` builds the combined view
\* and returns it; nothing is charged.  MODELS[key] of a key that is no
\* provider raises KeyError inside the handler, which nothing catches: the
\* request ends as an internal server error.
AskFallback ==
    /\ ask.pc = "call"
    /\ IF Keys(ask.answers) \subseteq Range(ask.models)
       THEN ask' = [ask EXCEPT !.pc = "closed", !.failed = TRUE, !.status = 200,
                               !.source = "fallback-combined",
                               !.best = CombinedResponse(ask.answers),
                               !.error = <<"AI synthesis failed, using combined view">>]
       ELSE ask' = [ask EXCEPT !.pc = "closed", !.failed = TRUE, !.status = 500]
    /\ UNCHANGED <<tokens_used, streamVars, acked, overlap, resets>>
    /\ UNCHANGED startVars
    /\ UNCHANGED sideVars

(* ---------------------------- /reset-tokens ----------------------------- *)

\* `tokens_used = 0`.  A charge that has loaded and not yet stored overlaps it.
ResetTokens ==
    /\ proc = "running"
    /\ rst.pc = "idle"
    /\ resets < MaxResets
    /\ tokens_used' = 0
    /\ resets' = resets + 1
    /\ acked' = 0
    /\ overlap' = <<>>
    /\ stale' = [r \in Reqs |-> stale[r] \/ pc[r] \in {"st_req", "st_bot"}]
    /\ ask' = [ask EXCEPT !.stale = @ \/ ask.pc = "st"]
    /\ UNCHANGED <<pc, status, input, seen, full_prompt, active, snap, idx, gen,
                   net, tmp, out, prod, called, stores>>
    /\ UNCHANGED startVars
    /\ rst' = [pc |-> "ret", returned |-> rst.returned]
    /\ UNCHANGED <<tok, lurk>>

\* `return jsonify({..., "tokens_used": tokens_used})`: the global is read
\* again for the response.
ResetReturn ==
    /\ rst.pc = "ret"
    /\ rst' = [pc |-> "idle", returned |-> tokens_used]
    /\ UNCHANGED <<tokens_used, streamVars, acked, overlap, resets, ask,
                   startVars, tok, lurk>>

(* -------------------------------- /tokens ------------------------------- *)

\* get_tokens builds its dictionary entry by entry; every entry that shows
\* the ledger reads the global anew.  "tokens_used" and "token_limit":
GetTokens ==
    /\ proc = "running"
    /\ tok.pc = "idle"
    /\ tok' = [tok EXCEPT !.pc = "remaining", !.tokens_used = tokens_used,
                           !.token_limit = TOKEN_LIMIT]
    /\ UNCHANGED <<tokens_used, streamVars, acked, overlap, resets, ask,
                   startVars, rst, lurk>>

\* "remaining_tokens": TOKEN_LIMIT - tokens_used
GetTokensRemaining ==
    /\ tok.pc = "remaining"
    /\ tok' = [tok EXCEPT !.pc = "usage",
                           !.remaining_tokens = TOKEN_LIMIT - tokens_used]
    /\ UNCHANGED <<tokens_used, streamVars, acked, overlap, resets, ask,
                   startVars, rst, lurk>>

\* "usage_percentage": (tokens_used / TOKEN_LIMIT) * 100, kept as the
\* tokens_used it is computed of; then the response is returned.
GetTokensUsage ==
    /\ tok.pc = "usage"
    /\ tok' = [tok EXCEPT !.pc = "closed", !.usage_of = tokens_used,
                           !.status = 200]
    /\ UNCHANGED <<tokens_used, streamVars, acked, overlap, resets, ask,
                   startVars, rst, lurk>>

(* ------------------------ src/lurkbe.py, the script ---------------------- *)

\* `len(selected_names) < 0`
NoneSelectedNever(names) == Len(names) < 0

\* `len(selected_names) < 1`
NoneSelected(names) == Len(names) < 1

\* What generate_response returns for each selected name.
Outcomes(names, clients, beh) ==
    [n \in Range(names) |-> GenerateResponse(n, ProviderOf(n), clients, beh[n])]

\* The providers a run over `names` called.
Calls(names, outcome) == Cardinality({n \in Range(names) : outcome[n].called})

RECURSIVE SumCalls(_, _, _, _)
SumCalls(k, names, clients, behs) ==
    IF k = 0 THEN 0
    ELSE SumCalls(k - 1, names, clients, behs)
         + Calls(names, Outcomes(names, clients, behs[k]))

\* One history record with its responses regenerated over `names`.
Regenerated(h, names, clients, beh) ==
    LET o == Outcomes(names, clients, beh)
    IN  [question |-> h.question,
         responses |-> RegenResponses(FutureToModel(names, o)),
         selected |-> names, outcomes |-> o, asked |-> beh, via |-> "regen"]

\* "Check for model selection changes and regenerate all responses".
RegenStage(s, behs) ==
    IF s.selected # s.previous /\ s.history # <<>>
    THEN [s EXCEPT
            !.history = [i \in 1..Len(s.history) |->
                            Regenerated(s.history[i], s.selected, s.clients, behs[i])],
            !.previous = s.selected,
            !.calls = SumCalls(Len(s.history), s.selected, s.clients, behs),
            !.last = "regen"]
    ELSE s

\* `if st.session_state.submit and st.session_state.user_prompt.strip()`.
SubmitStage(s, p, beh) ==
    LET o == Outcomes(s.selected, s.clients, beh)
    IN  [s EXCEPT
            !.history = Append(@, [question |-> p,
                                   responses |-> SubmitResponses(FutureToModel(s.selected, o)),
                                   selected |-> s.selected, outcomes |-> o,
                                   asked |-> beh, via |-> "submit"]),
            !.previous = s.selected,
            !.calls = @ + Calls(s.selected, o),
            !.last = "submit"]

\* The session as a script run finds it.
Rerun(names) ==
    [lurk EXCEPT !.selected = names, !.calls = 0, !.notice = "",
                 !.before = Len(lurk.history), !.last = "shown"]

\* The user changes the multiselect to `names` and the script runs.
LurkSelect(names, behs) ==
    /\ names # lurk.selected
    /\ lurk' = IF NoneSelected(names)
               THEN [Rerun(names) EXCEPT
                        !.last = "stopped",
                        !.notice = "Please select at least 1 model to compare."]
               ELSE RegenStage(Rerun(names), behs)
    /\ UNCHANGED appVars

\* The user types `p` and presses Send, and the script runs.
LurkSend(p, behs, beh) ==
    /\ ~NoneSelected(lurk.selected)
    /\ Strip(p) # <<>>
    /\ Len(lurk.history) < MaxTurns
    /\ lurk' = SubmitStage(RegenStage(Rerun(lurk.selected), behs), p, beh)
    /\ UNCHANGED appVars

(* ----------------------------- specifications --------------------------- *)

\* No thread stands between the load and the store of a `tokens_used +=`.
Quiescent ==
    /\ \A r \in Reqs : pc[r] \notin {"st_req", "st_bot"}
    /\ ask.pc # "st"

\* No /stream request is being served.
NoTurnRunning == \A r \in Reqs : pc[r] \in {"idle", "closed"}

\* No /stream and no /reset-tokens request is being served.
NoRequestRunning == NoTurnRunning /\ rst.pc = "idle"

\* The steps of a /stream thread after the handler returned its Response.
StreamStep(r) ==
    \/ GenStart(r)
    \/ GenCharge(r)
    \/ \E t \in DeltaTexts, fin \in BOOLEAN : GenDelta(r, t, fin)
    \/ GenSkip(r)
    \/ GenBreak(r)
    \/ GenResumeFinished(r)
    \/ GenChargeBot(r)
    \/ GenDone(r)
    \/ GenFault(r)
    \/ GenStop(r)
    \/ AllDone(r)

\* The bodies of the requests that are served concurrently.
ConcPrompts == {<<"q">>}
ConcFileLists == {<<>>}

\* The threads of app.run(threaded=True): /stream requests served
\* concurrently with each other and with /reset-tokens.
Next ==
    \/ \E r \in Reqs, p \in ConcPrompts, f \in ConcFileLists :
           StreamRequest(r, p, f, MODELS(NumConcBots))
    \/ \E r \in Reqs : StreamStep(r)
    \/ \E r \in Reqs, b \in Bots : BackendDeliver(r, b)
    \/ ResetTokens
    \/ ResetReturn

Spec == Init /\ [][Next]_vars

\* One /stream turn at a time, with resets between the turns.
TurnNext ==
    \/ \E r \in Reqs, p \in Prompts, f \in FileLists :
           NoRequestRunning /\ StreamRequest(r, p, f, MODELS(NumBots))
    \/ \E r \in Reqs : StreamStep(r)
    \/ \E r \in Reqs, b \in Bots : BackendDeliver(r, b)
    \/ NoRequestRunning /\ ResetTokens
    \/ ResetReturn

TurnSpec == Init /\ [][TurnNext]_vars

\* A single /stream turn, request 1 alone.
OneTurnNext ==
    \/ \E p \in Prompts, f \in FileLists : StreamRequest(1, p, f, MODELS(NumBots))
    \/ StreamStep(1)
    \/ \E b \in Bots : BackendDeliver(1, b)

OneTurnSpec == Init /\ [][OneTurnNext]_vars

\* The thread of the turn keeps running while it can take a step, and a
\* chunk the backend has sent arrives.
Progress ==
    /\ WF_vars(StreamStep(1))
    /\ \A b \in Bots : WF_vars(BackendDeliver(1, b))

FairOneTurnSpec == OneTurnSpec /\ Progress

\* Every stream is finite: a backend does not send chunks without content
\* for ever, its stream ends or fails.
FiniteStreams == SF_vars(GenBreak(1) \/ GenFault(1))

FiniteOneTurnSpec == OneTurnSpec /\ Progress /\ FiniteStreams

\* The answer texts of the /asklurk request that is served concurrently.
ConcAnswerTexts == {<<"f">>}

\* One /stream request served concurrently with /asklurk and /reset-tokens.
AskNext ==
    \/ \E p \in ConcPrompts, f \in ConcFileLists :
           StreamRequest(1, p, f, MODELS(NumConcBots))
    \/ StreamStep(1)
    \/ \E b \in Bots : BackendDeliver(1, b)
    \/ \E a \in AnswerMaps(Range(MODELS(NumConcBots)), ConcAnswerTexts) :
           AskLurk(a, MODELS(NumConcBots))
    \/ \E t \in BestTexts : AskSynthesized(t)
    \/ AskCharge
    \/ AskReturn
    \/ AskFallback
    \/ ResetTokens
    \/ ResetReturn

AskSpec == Init /\ [][AskNext]_vars

\* A process as it is launched, with or without its credential in the
\* environment and `tokens_used = 0`.
StartInit ==
    /\ Serving
    /\ lurk = NoLurk
    /\ tokens_used = 0
    /\ KEY \in BOOLEAN
    /\ proc = "starting"

\* The launch, then /stream turns served one at a time.
StartNext ==
    \/ Startup
    \/ TurnNext

StartSpec == StartInit /\ [][StartNext]_vars

\* One /stream request served concurrently with GET /tokens.
TokensNext ==
    \/ \E p \in ConcPrompts, f \in ConcFileLists :
           StreamRequest(1, p, f, MODELS(NumConcBots))
    \/ StreamStep(1)
    \/ \E b \in Bots : BackendDeliver(1, b)
    \/ GetTokens
    \/ GetTokensRemaining
    \/ GetTokensUsage

TokensSpec == Init /\ [][TokensNext]_vars

\* /asklurk served alone, with /reset-tokens.
SynthNext ==
    \/ \E a \in AnswerMaps(Range(MODELS(NumBots)) \cup ExtraKeys, AnswerTexts) :
           AskLurk(a, MODELS(NumBots))
    \/ \E t \in BestTexts : AskSynthesized(t)
    \/ AskCharge
    \/ AskReturn
    \/ AskFallback
    \/ ResetTokens
    \/ ResetReturn

SynthSpec == Init /\ [][SynthNext]_vars

\* The providers of the modelled session that have a client object.
LurkClients == SUBSET ({ProviderOf(n) : n \in LurkNames} \cap ClientKinds)

\* What the backends do when the providers of `names` are asked.
AskedBehaviours(names) == [Range(names) -> Behaviours]

\* The same for every history record, when the run over `names` regenerates.
RegenBehaviours(names) ==
    IF ~NoneSelected(names) /\ names # lurk.previous /\ lurk.history # <<>>
    THEN [1..Len(lurk.history) -> AskedBehaviours(names)]
    ELSE {<<>>}

\* One Streamlit session of src/lurkbe.py.
LurkInit ==
    /\ Serving
    /\ tokens_used = 0
    /\ KEY = TRUE
    /\ proc = "running"
    /\ lurk \in {[NoLurk EXCEPT !.clients = c] : c \in LurkClients}

LurkNext ==
    \/ \E names \in Selections(LurkNames) :
           \E behs \in RegenBehaviours(names) : LurkSelect(names, behs)
    \/ \E p \in Prompts, behs \in RegenBehaviours(lurk.selected),
          beh \in AskedBehaviours(lurk.selected) :
           LurkSend(p, behs, beh)

LurkSpec == LurkInit /\ [][LurkNext]_vars

\* Either program on its own: one /stream turn of src/app.py, or one session
\* of src/lurkbe.py.
AdapterNext ==
    \/ lurk.last = "idle" /\ OneTurnNext
    \/ pc[1] = "idle" /\ LurkNext

AdapterSpec == LurkInit /\ [][AdapterNext]_vars

(* -------------------------------- claims -------------------------------- *)

Last(s) == s[Len(s)]

\* The request body of r has neither a prompt (after trimming) nor files.
EmptyBody(r) == Strip(input[r].prompt) = <<>> /\ input[r].files = <<>>

\* Request r has been received.
Arrived(r) == pc[r] # "idle"

\* Nothing was done for request r: no event, no backend call, no ledger store.
NoWork(r) ==
    /\ pc[r] = "closed"
    /\ out[r] = <<>>
    /\ \A b \in Bots : prod[r][b] = <<>> /\ gen[r][b].st = "new"
    /\ called[r] = {}
    /\ stores[r] = 0

TerminalsOf(r, b) == SelectSeq(out[r], LAMBDA e : e.bot = b /\ IsTerminal(e))

Markers(r) == SelectSeq(out[r], LAMBDA e : e.kind = "all_done")

\* The merged stream of r holds one terminal event per provider and then the
\* one all-complete marker, which is its last event.
TurnComplete(r) ==
    /\ pc[r] = "closed"
    /\ \A b \in Range(MODELS(NumBots)) : Len(TerminalsOf(r, b)) = 1
    /\ Len(Markers(r)) = 1
    /\ out[r] # <<>>
    /\ Last(out[r]).kind = "all_done"

\* C1: every admitted /stream turn whose provider streams are finite ends
\* with exactly one done-or-error event per provider in its merged output,
\* followed by exactly one all-complete marker, the last event.
C1_TurnCompletes ==
    \A r \in Reqs : (status[r] = 200) ~> TurnComplete(r)

\* A finished turn over two providers, one ended by done and one by error.
C1_Witness ==
    \E r \in Reqs :
        /\ TurnComplete(r)
        /\ \E b \in Bots : TerminalsOf(r, b) # <<>> /\ TerminalsOf(r, b)[1].kind = "done"
        /\ \E b \in Bots : TerminalsOf(r, b) # <<>> /\ TerminalsOf(r, b)[1].kind = "error"

\* C2: with no reset in play, once every charge that was issued has returned
\* the ledger holds its prior value plus the sum of the charges.
C2_NoLostUpdate ==
    (resets = 0 /\ Quiescent) => tokens_used = acked

\* The delta texts provider b yielded in turn r.
DeltasOf(r, b) == SelectSeq(prod[r][b], LAMBDA e : e.kind = "text")

\* The providers of turn r that ended with an error event.
Faulted(r) == {b \in Bots : prod[r][b] # <<>> /\ Last(prod[r][b]).kind = "error"}

\* Turns r1 and r2 are the same turn (same prompt, same ledger at the start),
\* except that one provider faults in r1 and none in r2, and provider q
\* receives the same from its backend in both.
SameTurnButOneFault(r1, r2, q) ==
    /\ pc[r1] = "closed" /\ status[r1] = 200
    /\ pc[r2] = "closed" /\ status[r2] = 200
    /\ full_prompt[r1] = full_prompt[r2]
    /\ seen[r1] = seen[r2]
    /\ Cardinality(Faulted(r1)) = 1
    /\ Faulted(r2) = {}
    /\ q \in Range(MODELS(NumBots)) \ Faulted(r1)
    /\ DeltasOf(r1, q) = DeltasOf(r2, q)

\* C3: a provider's fault leaves the events of every other provider as they
\* are in the same turn without the fault, and the others reach done.
C3_SiblingsUnaffected ==
    \A r1 \in Reqs, r2 \in Reqs, q \in Bots :
        SameTurnButOneFault(r1, r2, q) =>
            /\ Last(prod[r1][q]).kind = "done"
            /\ SelectEvents(out[r1], q) = SelectEvents(out[r2], q)

\* C4: a chunk that has arrived for a provider is eventually read and
\* forwarded, whatever the other providers do.
C4_ReadyIsEmitted ==
    \A r \in Reqs, b \in Bots : (net[r][b] = "ready") ~> (net[r][b] # "ready")

\* What the dispatch of request r charges before any backend answers.
EstimatedCost(r) ==
    SumSeq([i \in 1..NumBots |->
              Tokens(SYSTEM_PROMPTS[MODELS(NumBots)[i]])
              + Tokens(FullPrompt(input[r].prompt, input[r].files))])

\* Request r was answered 429 and nothing else.
Refused(r) == status[r] = 429 /\ NoWork(r)

C6_ZeroRemaining ==
    \A r \in Reqs :
        (Arrived(r) /\ ~EmptyBody(r) /\ seen[r] >= TOKEN_LIMIT) => Refused(r)

\* A valid request refused because an earlier turn, admitted below the limit,
\* had pushed the ledger over it.
C6_Witness ==
    \E r \in Reqs, e \in Reqs :
        /\ Refused(r) /\ ~EmptyBody(r) /\ seen[r] > TOKEN_LIMIT
        /\ status[e] = 200 /\ seen[e] < TOKEN_LIMIT /\ stores[e] > 0

\* C7: a /stream request with neither a prompt (after trimming) nor files is
\* answered 400 before any work: no event, no adapter call, no ledger store,
\* whatever the ledger holds.
C7_EmptyRejected ==
    \A r \in Reqs :
        (Arrived(r) /\ EmptyBody(r)) => (status[r] = 400 /\ NoWork(r))

\* A whitespace-only prompt without files, sent when the limit is reached.
C7_Witness ==
    \E r \in Reqs :
        /\ Arrived(r)
        /\ input[r].prompt = <<" ">>
        /\ input[r].files = <<>>
        /\ seen[r] >= TOKEN_LIMIT
        /\ status[r] = 400

\* C8: the ledger never decreases from one state to the next, except by a
\* reset, which sets it to 0.
C8_Monotonic ==
    [][tokens_used' >= tokens_used \/ (resets' = resets + 1 /\ tokens_used' = 0)]_vars

RECURSIVE SubsetSums(_)
SubsetSums(s) ==
    IF s = <<>> THEN {0}
    ELSE LET rest == SubsetSums(Tail(s))
         IN  rest \cup {Head(s) + x : x \in rest}

\* C9: the ledger is linearizable.  A read sees every charge that began and
\* returned since the last reset; once all charges have returned the ledger
\* holds those, plus any of the charges the reset overlapped (each of them
\* took effect before the reset or after it) and nothing else.
C9_Linearizable ==
    /\ tokens_used >= acked
    /\ Quiescent => (tokens_used - acked) \in SubsetSums(overlap)

\* C10: the events of one provider in the merged stream are the events its
\* generator yielded, in order, none dropped, duplicated or reordered.
C10_ProviderOrder ==
    \A r \in Reqs, b \in Bots : SelectEvents(out[r], b) = prod[r][b]

\* A finished turn whose two providers each yielded events that the merged
\* stream interleaves.
C10_Witness ==
    \E r \in Reqs :
        /\ pc[r] = "closed"
        /\ \E b1 \in Bots, b2 \in Bots :
              /\ b1 # b2
              /\ Len(prod[r][b1]) >= 2
              /\ Len(prod[r][b2]) >= 2
              /\ out[r][1].bot = b1
              /\ out[r][2].bot = b2
              /\ out[r][3].bot = b1

\* The step by which event_stream of request r yields its final marker.
MarkerStep(r) == pc[r] = "final" /\ pc'[r] = "closed"

\* C11 as stated: the all-complete marker carries the ledger's remaining()
\* value, limit minus used, at the moment it is emitted.
C11_MarkerCarriesRemaining ==
    [][\A r \in Reqs :
          MarkerStep(r) =>
              /\ Last(out'[r]).kind = "all_done"
              /\ Last(out'[r]).tokens = TOKEN_LIMIT - tokens_used]_vars

\* C11, amended: the all-complete marker carries the ledger's used value at
\* the moment it is emitted.
C11_MarkerCarriesUsed ==
    [][\A r \in Reqs :
          MarkerStep(r) =>
              /\ Last(out'[r]).kind = "all_done"
              /\ Last(out'[r]).tokens = tokens_used]_vars

\* A finished turn that charged the ledger: its marker carries what was used,
\* which is not what remains.
C11_Witness ==
    \E r \in Reqs :
        /\ pc[r] = "closed" /\ status[r] = 200 /\ stores[r] > 0
        /\ Last(out[r]).kind = "all_done"
        /\ Last(out[r]).tokens = tokens_used
        /\ Last(out[r]).tokens # TOKEN_LIMIT - tokens_used

\* Turn r has ended: its stream is closed after the final marker.
TurnOver(r) == pc[r] = "closed" /\ status[r] = 200

\* The providers of turn r that ended with a done event.
Finished(r) == {b \in Bots : prod[r][b] # <<>> /\ Last(prod[r][b]).kind = "done"}

\* What provider b charges in turn r when it runs to its done event: the
\* request (system and user text) and the deltas it answered with.
FullCharge(r, b) ==
    Tokens(SYSTEM_PROMPTS[b]) + Tokens(full_prompt[r]) + gen[r][b].bot_tokens

\* The full charges of the providers in S, summed.
RECURSIVE FullCharges(_, _)
FullCharges(r, S) ==
    IF S = {} THEN 0
    ELSE LET b == CHOOSE x \in S : TRUE
         IN  FullCharge(r, b) + FullCharges(r, S \ {b})

\* C12: in a turn served alone, the final marker's token value is the ledger
\* at the start of the turn plus the charges of the providers that finished
\* with done; a provider that ended with error has added nothing.
C12_FailedAddsNothing ==
    \A r \in Reqs :
        TurnOver(r) => Last(out[r]).tokens = seen[r] + FullCharges(r, Finished(r))

\* The /asklurk request has been received.
AskArrived == ask.pc # "idle"

\* The configured providers the submitted answers have no entry for.
MissingIds == Range(ask.models) \ Keys(ask.answers)

\* The ids a "Missing responses from: ..." message names.
NamedIds(message) == Range(Tail(message)) \cap (Bots \cup ExtraKeys)

\* C13: an /asklurk request whose answers lack an entry for a configured
\* provider is answered 400 with an empty best answer and a message that
\* names exactly the missing providers; the synthesis backend is not called
\* and the request makes no store to the ledger.
C13_IncompleteRejected ==
    (AskArrived /\ MissingIds # {}) =>
        /\ ask.pc = "closed"
        /\ ask.status = 400
        /\ ask.best = <<>>
        /\ Head(ask.error) = "Missing responses from: "
        /\ NamedIds(ask.error) = MissingIds
        /\ ask.calls = 0
        /\ ask.stores = 0

\* A rejected request that answered for one configured provider and for a
\* key that is no provider, and left another provider out.
C13_Witness ==
    /\ ask.status = 400
    /\ Keys(ask.answers) \cap Range(ask.models) # {}
    /\ Keys(ask.answers) \cap ExtraKeys # {}
    /\ MissingIds # {}
    /\ NamedIds(ask.error) = MissingIds

\* C14: when the synthesis call fails on an answers mapping that passed the
\* completeness check, keys beyond the configured providers included, the
\* request still ends with 200, the combined view as best answer and an
\* error field, after one backend call and no more.
C14_FailureIsNonFatal ==
    (ask.pc = "closed" /\ ask.failed) =>
        /\ ask.status = 200
        /\ ask.source = "fallback-combined"
        /\ ask.best # <<>>
        /\ ask.error # <<>>
        /\ ask.calls = 1

\* sub occurs in s as a contiguous run.
Contains(s, sub) ==
    \E i \in 0..(Len(s) - Len(sub)) : SubSeq(s, i + 1, i + Len(sub)) = sub

\* The first n symbols of t, all of t when it is shorter.
Take(t, n) == [i \in 1..(IF Len(t) < n THEN Len(t) ELSE n) |-> t[i]]

\* The symbols that occur among the first n symbols of some answer.
Quotable(answers, n) ==
    UNION {Range(Take(answers[i].text, n)) : i \in 1..Len(answers)}

\* The symbols that occur in some answer only after its first n symbols.
BeyondOnly(answers, n) ==
    UNION {Range(answers[i].text) : i \in 1..Len(answers)} \ Quotable(answers, n)

\* The submitted answers are an AnswerSet of the configured providers: one
\* entry for each of them and no other.
CompleteAnswerSet == AskArrived /\ Keys(ask.answers) = Range(ask.models)

\* C15: when the synthesis call fails on a complete AnswerSet, the combined
\* view holds, for every provider, its display name followed by the first
\* 200 characters of its answer (the whole answer when it is shorter), and
\* nothing from beyond the 200th character of an answer.
C15_FallbackExcerpts ==
    (ask.pc = "closed" /\ ask.failed /\ CompleteAnswerSet) =>
        /\ ask.source = "fallback-combined"
        /\ \A i \in 1..Len(ask.answers) :
              Contains(ask.best,
                       <<ModelNames[ask.answers[i].key], "**: ">>
                       \o Take(ask.answers[i].text, 200))
        /\ BeyondOnly(ask.answers, 200) \cap Range(ask.best) = {}

\* A combined view built from a short answer and from one of 201 characters.
C15_Witness ==
    /\ ask.pc = "closed" /\ ask.failed /\ CompleteAnswerSet
    /\ ask.source = "fallback-combined"
    /\ \E i \in 1..Len(ask.answers) : Len(ask.answers[i].text) < 200
    /\ \E i \in 1..Len(ask.answers) : Len(ask.answers[i].text) > 200
    /\ BeyondOnly(ask.answers, 200) # {}

\* C16: when the synthesis call succeeds, /asklurk returns 200 with the
\* synthesized answer after exactly one store to the ledger, and that store
\* raised the ledger by the cost of the synthesized answer.
C16_ChargedOnce ==
    (ask.pc = "closed" /\ ask.source = "synthesized") =>
        /\ ask.status = 200
        /\ ask.best \in BestTexts
        /\ ask.stores = 1
        /\ ask.after = ask.before + ask.cost

\* C17: a process launched without the credential of its backend keeps
\* running (its adapters answer with error events); it does not exit.
C17_DegradesNotExits ==
    (proc # "starting" /\ ~KEY) => proc = "running"

\* What provider b charges in turn r for its request, before its backend
\* is contacted.
RequestCharge(r, b) == Tokens(SYSTEM_PROMPTS[b]) + Tokens(full_prompt[r])

RECURSIVE RequestCharges(_, _)
RequestCharges(r, S) ==
    IF S = {} THEN 0
    ELSE LET b == CHOOSE x \in S : TRUE
         IN  RequestCharge(r, b) + RequestCharges(r, S \ {b})

\* The summed size of the delta events in a stream.
RECURSIVE DeltaTokens(_)
DeltaTokens(s) ==
    IF s = <<>> THEN 0
    ELSE (IF Head(s).kind = "text" THEN Tokens(Head(s).text) ELSE 0)
         + DeltaTokens(Tail(s))

\* C18: every delta emitted in a turn is matched by a charge of its size.
\* At the end of a turn served alone the ledger has grown, beyond the
\* request charges of the providers, by at least the summed size of the
\* deltas in the merged stream, those of providers that ended with error
\* included.
C18_DeltasCharged ==
    \A r \in Reqs :
        TurnOver(r) =>
            Last(out[r]).tokens - seen[r] - RequestCharges(r, called[r])
                >= DeltaTokens(out[r])

\* Turn r was admitted below the limit and the ledger stood at or over the
\* limit when the turn ended.
LimitReachedInTurn(r) ==
    /\ TurnOver(r)
    /\ seen[r] < TOKEN_LIMIT
    /\ Last(out[r]).tokens >= TOKEN_LIMIT

\* C19: a turn during which the ledger reaches its limit emits the events
\* that were in flight and ends with a budget-exceeded terminal marker.
C19_BudgetMarker ==
    \A r \in Reqs :
        LimitReachedInTurn(r) =>
            /\ \A b \in Bots : SelectEvents(out[r], b) = prod[r][b]
            /\ Last(out[r]).kind = "budget_exceeded"

\* C20: once the ledger has reached its limit, no provider of a running
\* turn starts a backend call: a step that contacts a backend is taken only
\* with used < limit.
C20_NoCallAtLimit ==
    [][\A r \in Reqs :
          called'[r] # called[r] => tokens_used < TOKEN_LIMIT]_vars

\* C21: the done event of a provider carries the tokens charged for that
\* provider in that turn, its request and its deltas, whatever the ledger
\* held before and whatever the other providers were charged.
C21_DoneCarriesOwnTotal ==
    \A r \in Reqs, b \in Bots :
        (prod[r][b] # <<>> /\ Last(prod[r][b]).kind = "done") =>
            Last(prod[r][b]).tokens = FullCharge(r, b)

\* C25: the response of GET /tokens shows one ledger state: the remaining
\* tokens it reports are the limit less the used tokens it reports (and the
\* usage is computed of these used tokens).  The handler stores nothing.
C25_TokensConsistent ==
    (tok.pc = "closed") =>
        /\ tok.token_limit = TOKEN_LIMIT
        /\ tok.remaining_tokens = tok.token_limit - tok.tokens_used
        /\ tok.usage_of = tok.tokens_used

\* C26: POST /reset-tokens sets the ledger to 0 and answers with the value
\* 0; a step of any other operation neither lowers the ledger nor zeroes it.
C26_OnlyResetZeroes ==
    [][/\ (resets' = resets + 1) => tokens_used' = 0
       /\ (rst.pc = "ret" /\ rst'.pc = "idle") => rst'.returned = 0
       /\ (resets' = resets) =>
              /\ tokens_used' >= tokens_used
              /\ (tokens_used' = 0 => tokens_used = 0)]_vars

\* The number of events of provider b among the first n of the merged
\* stream of r.
CountUpTo(r, b, n) == Cardinality({i \in 1..n : out[r][i].bot = b})

EventCount(r, b) == CountUpTo(r, b, Len(out[r]))

\* C29: event_stream polls the active providers in rounds, in the order of
\* MODELS, and takes one event of each per round.  The first events of the
\* merged stream are the first events of the providers in that order; no
\* provider has its second event before every provider has had its first;
\* and two providers that are still active never differ by more than one in
\* the number of events emitted for them.
C29_RoundRobin ==
    \A r \in Reqs :
        (status[r] = 200) =>
            /\ \A i \in 1..Len(out[r]) :
                  i <= NumBots => out[r][i].bot = MODELS(NumBots)[i]
            /\ \A i \in 1..Len(out[r]) :
                  (out[r][i].bot \in Bots /\ CountUpTo(r, out[r][i].bot, i) >= 2) =>
                      \A b \in Range(MODELS(NumBots)) : CountUpTo(r, b, i) >= 1
            /\ \A b1 \in Range(active[r]), b2 \in Range(active[r]) :
                  EventCount(r, b1) - EventCount(r, b2) <= 1

\* A finished turn in which both providers had two events, the second
\* provider's first event between the two of the first.
C29_Witness ==
    \E r \in Reqs :
        /\ pc[r] = "closed" /\ status[r] = 200
        /\ \A b \in Range(MODELS(NumBots)) : EventCount(r, b) = 2
        /\ out[r][1].bot # out[r][2].bot
        /\ out[r][1].kind = "text"

\* C30: in the merged stream of a turn nothing of a provider follows its
\* done or error event, and when the all-complete marker is there no
\* provider is left in active_generators.
C30_TerminalIsLast ==
    \A r \in Reqs :
        /\ \A i \in 1..Len(out[r]), j \in 1..Len(out[r]) :
              (i < j /\ IsTerminal(out[r][i])) => out[r][j].bot # out[r][i].bot
        /\ Markers(r) # <<>> => active[r] = <<>>

\* A finished turn in which one provider ended at once with an error and the
\* other went on to emit a delta and its done event before the marker.
C30_Witness ==
    \E r \in Reqs :
        /\ pc[r] = "closed" /\ status[r] = 200 /\ active[r] = <<>>
        /\ Len(out[r]) = 4
        /\ out[r][1].kind = "error"
        /\ out[r][2].kind = "text"
        /\ out[r][3].kind = "done"
        /\ out[r][4].kind = "all_done"


\* The history records of the session.
LurkRecords == {lurk.history[i] : i \in 1..Len(lurk.history)}

\* The adapter of provider n failed when record h was made: its client does
\* not exist, or the call to its backend raised.
AdapterFailed(h, n) ==
    \/ ProviderOf(n) \in ClientKinds /\ ProviderOf(n) \notin lurk.clients
    \/ h.asked[n].kind = "raise"

\* C22: a failure inside a provider adapter (credential absent, backend
\* unreachable, timeout, backend error) is returned as one error outcome that
\* carries a message and no reply; no adapter yields both a reply (a done
\* event) and an error, and no provider of a /stream turn produces more than
\* one done-or-error event, which ends what it produces.
C22_FailureIsOneError ==
    /\ \A h \in LurkRecords : \A n \in Range(h.selected) :
           LET o == h.outcomes[n]
           IN  /\ AdapterFailed(h, n) => (o.reply = None /\ Truthy(o.error))
               /\ ~(o.reply # None /\ o.error # None)
    /\ \A r \in Reqs, b \in Bots :
           /\ Len(SelectSeq(prod[r][b], IsTerminal)) <= 1
           /\ gen[r][b].st = "fin" =>
                  (prod[r][b] # <<>> /\ IsTerminal(Last(prod[r][b])))

\* A record of two providers, one without a client and one whose call raised,
\* both returned as errors.
C22_Witness ==
    \E h \in LurkRecords : \E n, m \in Range(h.selected) :
        /\ ProviderOf(n) \notin lurk.clients
        /\ ProviderOf(m) \in lurk.clients /\ h.asked[m].kind = "raise"
        /\ Truthy(h.outcomes[n].error) /\ Truthy(h.outcomes[m].error)

\* C24: a script run with no model selected stops with a notice: it calls no
\* provider and leaves the history as it was.
C24_EmptySelectionStops ==
    [][lurk'.selected = <<>> /\ lurk' # lurk =>
          /\ lurk'.last = "stopped"
          /\ lurk'.notice # ""
          /\ lurk'.calls = 0
          /\ lurk'.history = lurk.history]_vars

\* A session with a recorded question whose selection was then emptied.
C24_Witness ==
    /\ lurk.last = "stopped"
    /\ lurk.selected = <<>>
    /\ lurk.history # <<>>
    /\ lurk.previous # <<>>

\* C27: every history record has exactly one entry in its responses for
\* every model that was selected when it was made, whatever the providers
\* returned.
C27_OneEntryPerProvider ==
    \A h \in LurkRecords : DOMAIN h.responses = Range(h.selected)

\* The entry of an outcome: the error marker of a failure, the reply otherwise.
EntryOf(o) == IF o.error # None THEN <<"[Error] ">> \o o.error ELSE o.reply

\* C28: the entry recorded for a provider is the error marker when the
\* provider failed and the reply otherwise, by a submission as by a
\* regeneration.
C28_FailureIsMarked ==
    \A h \in LurkRecords : \A n \in DOMAIN h.responses :
        h.responses[n] = EntryOf(h.outcomes[n])


\* C31: the ledger stays within 0 and TOKEN_LIMIT, and the remaining_tokens
\* that /tokens reports is not negative.
C31_WithinLimit ==
    /\ 0 <= tokens_used
    /\ tokens_used <= TOKEN_LIMIT
    /\ tok.pc = "closed" => tok.remaining_tokens >= 0

\* C32: an /asklurk request that is rejected for a missing answer, or whose
\* synthesis call fails, does not store to the ledger: no step of the handler
\* changes `tokens_used` but the store that follows a synthesized answer,
\* which is the one store of the request.
C32_OnlySynthesisCharges ==
    [][/\ (ask'.pc # ask.pc /\ ask.pc # "st") => tokens_used' = tokens_used
       /\ (ask'.pc = "closed" /\ (ask'.status = 400 \/ ask'.failed)) =>
              ask'.stores = 0
       /\ (ask.pc = "st" /\ ask'.pc # "st") =>
              (ask'.stores = 1 /\ ~ask'.failed /\ ask'.status # 400)]_vars

\* A request answered with the combined view on a ledger that had been used.
C32_Witness ==
    /\ ask.pc = "closed"
    /\ ask.source = "fallback-combined"
    /\ ask.stores = 0
    /\ tokens_used > 0

=============================================================================
